---- MODULE Spec2Model ----
(***************************************************************************)
(* N-Queens solvers of n_queens.py: brute_force, recursive,                *)
(* recursive_fast, get_valid_moves and test_get_valid_moves.               *)
(*                                                                         *)
(* A placement is a sequence of rows, one per column.  Python indexes from *)
(* 0, TLA+ sequences from 1: column idx of the source is position idx + 1  *)
(* here; row values keep the source's numbering 0 .. board_size - 1.       *)
(*                                                                         *)
(* Python lists are mutable objects, so they live in `heap` and frames     *)
(* hold references to them; tuples and sets of ints are values.            *)
(* A Python set of small non-negative ints built from range(n) is iterated *)
(* in ascending order (hash(i) = i, no collisions), which is how `for move *)
(* in valid_moves` is modelled.                                            *)
(***************************************************************************)
EXTENDS Integers, Sequences, FiniteSets, TLC

\* Largest board for the runs that include brute_force.
MaxN == 6
\* Largest board for the runs of the two backtracking solvers alone.
MaxSolverN == 8
\* Largest board for which the solvers are also started from every partial
\* placement.
MaxPartialN == 5
\* Largest board for the runs checked for termination.
MaxFairN == 6

VARIABLES
    board_size,             \* n / board_size argument of every call
    calls,                  \* the calls still to be made, the head is running
    heap,                   \* list objects: reference -> contents
    stack,                  \* frames of recursive / recursive_fast
    status,                 \* "ok", "AssertionError" or "TypeError"
    finished,               \* the calls that returned
    bf_result,              \* value returned by brute_force(n)
    all_result,             \* value returned by recursive(start, n)
    fast_result,            \* value returned by recursive_fast(start, n)
    visited,                \* arguments recursive_fast has been called with
    brute_force_solutions,  \* test_get_valid_moves: brute_force(n)[0]
    test_todo,              \* test_get_valid_moves: solutions not yet iterated
    test_pc,                \* test_get_valid_moves: position in its loops
    test_solution,          \* test_get_valid_moves: solution
    test_row,               \* test_get_valid_moves: row
    test_valid_moves,       \* test_get_valid_moves: valid_moves
    failed,                 \* test_get_valid_moves: failed
    test_result             \* "", "passed" or "FAILED"

vars == <<board_size, calls, heap, stack, status, finished, bf_result,
          all_result, fast_result, visited, brute_force_solutions, test_todo,
          test_pc, test_solution, test_row, test_valid_moves, failed,
          test_result>>

solver_vars == <<heap, stack, all_result, fast_result, visited>>
test_vars == <<brute_force_solutions, test_todo, test_pc, test_solution,
               test_row, test_valid_moves, failed, test_result>>

(***************************************************************************)
(* Values                                                                  *)
(***************************************************************************)
\* Python's None and a returned tuple, as one record shape.
NoneValue == [is_none |-> TRUE, value |-> <<>>]
Some(t) == [is_none |-> FALSE, value |-> t]

\* The reference held by a name that is not bound yet.
NoRef == 0 - 1
\* The list object the outermost caller passes as prev_moves.
RootRef == 0

abs(x) == IF x < 0 THEN 0 - x ELSE x

Min(S) == CHOOSE x \in S : \A y \in S : x <= y
Max(S) == CHOOSE x \in S : \A y \in S : x >= y

\* p < q in lexicographic order, for sequences of the same length.
LexLess(p, q) ==
    \E i \in 1..Len(p) :
        /\ i <= Len(q)
        /\ p[i] < q[i]
        /\ \A j \in 1..(i - 1) : p[j] = q[j]

LexLeq(p, q) == p = q \/ LexLess(p, q)

LexMin(S) == CHOOSE p \in S : \A q \in S : LexLeq(p, q)

(***************************************************************************)
(* get_valid_moves                                                         *)
(***************************************************************************)
range_mut(n) == 0..n
\* range(board_size)
range(n) == 0..(n - 1)

diagonal_shift_mut(len, idx) == idx + 1
\* diagonal_shift = len(prev_moves) - idx
diagonal_shift(len, idx) == len - idx

invalid_for_no_row(move, shift) == {move + shift, move - shift}
\* the three invalid_moves.add calls of one loop iteration
invalid_for(move, shift) == {move, move + shift, move - shift}

get_valid_moves(prev_moves, n) ==
    LET invalid_moves ==
            UNION { invalid_for(prev_moves[i],
                                diagonal_shift(Len(prev_moves), i - 1))
                    : i \in 1..Len(prev_moves) }
    IN range(n) \ invalid_moves

(***************************************************************************)
(* brute_force                                                             *)
(***************************************************************************)
same_diagonal_mut(elem, other, idx_1, idx_2) == FALSE
\* abs(elem - permut[idx_2]) == idx_2 - idx_1
same_diagonal(elem, other, idx_1, idx_2) == abs(elem - other) = idx_2 - idx_1

\* The two nested loops over one permutation: returns not_valid and the
\* counter after the comparisons made.
RECURSIVE check_permut(_, _, _, _)
check_permut(permut, idx_1, idx_2, counter) ==
    IF idx_1 > Len(permut) - 1
    THEN [not_valid |-> FALSE, counter |-> counter]
    ELSE IF idx_2 > Len(permut)
    THEN check_permut(permut, idx_1 + 1, idx_1 + 2, counter)
    ELSE IF same_diagonal(permut[idx_1], permut[idx_2], idx_1, idx_2)
    THEN [not_valid |-> TRUE, counter |-> counter + 1]
    ELSE check_permut(permut, idx_1, idx_2 + 1, counter + 1)

\* permutations(range(n), n) in the order itertools yields them
\* (lexicographic), each one run through the loop body; acc carries
\* solutions and counter.
RECURSIVE permuts_from(_, _, _), permuts_next(_, _, _, _)
permuts_from(prefix, n, acc) ==
    IF Len(prefix) = n
    THEN LET c == check_permut(prefix, 1, 2, acc.counter)
         IN [solutions |-> IF c.not_valid THEN acc.solutions
                           ELSE acc.solutions \cup {prefix},
             counter |-> c.counter]
    ELSE permuts_next(prefix, 0, n, acc)
permuts_next(prefix, v, n, acc) ==
    IF v >= n THEN acc
    ELSE IF \E i \in 1..Len(prefix) : prefix[i] = v
    THEN permuts_next(prefix, v + 1, n, acc)
    ELSE LET sub == permuts_from(Append(prefix, v), n, acc)
         IN IF sub.counter >= 0 THEN permuts_next(prefix, v + 1, n, sub)
            ELSE sub

brute_force(n) ==
    permuts_from(<<>>, n, [solutions |-> {}, counter |-> 0])

(***************************************************************************)
(* List objects                                                            *)
(***************************************************************************)
\* Where a call at depth d (its position in `stack`) keeps the lists it
\* creates.  A list is released when the last name bound to it goes away, so
\* the slot of next_state is free again when the loop rebinds the name.
curr_state_ref(d) == 2 * d - 1
next_state_ref(d) == 2 * d

list_alias(h, ref, new) == [heap |-> h, ref |-> ref]
\* list(x): a new list object, at `new`, with the contents of x
list_copy(h, ref, new) ==
    [heap |-> (new :> h[ref]) @@ h, ref |-> new]

\* curr_state.extend(valid_moves)
RECURSIVE extend(_, _)
extend(list, moves) ==
    IF moves = {} THEN list
    ELSE extend(Append(list, Min(moves)), moves \ {Min(moves)})

\* the list objects some frame (or the outermost caller) still refers to
Live(stk) ==
    {RootRef} \cup UNION { {stk[i].prev_moves, stk[i].curr_state,
                            stk[i].next_state} : i \in 1..Len(stk) }

Collect(h, stk) == [r \in (DOMAIN h) \cap Live(stk) |-> h[r]]

(***************************************************************************)
(* recursive and recursive_fast: shared shape                              *)
(***************************************************************************)
\* The first statements of a call: curr_state = list(prev_moves),
\* valid_moves = get_valid_moves(curr_state, board_size).
NewFrame(h, prev, n, d) ==
    LET c == list_copy(h, prev, curr_state_ref(d))
        moves == get_valid_moves(c.heap[c.ref], n)
    IN [heap |-> c.heap,
        frame |-> [prev_moves |-> prev,
                   curr_state |-> c.ref,
                   valid_moves |-> moves,
                   todo |-> moves,
                   next_state |-> NoRef,
                   output |-> {},
                   solution |-> NoneValue]]

is_last_move_mut(curr_state, n) == Len(curr_state) = n
\* len(curr_state) == board_size - 1
is_last_move(curr_state, n) == Len(curr_state) = n - 1

next_move_mut(todo) == Max(todo)
\* the next element `for move in valid_moves` yields
next_move(todo) == Min(todo)

assert_ok_mut(valid_moves) == Cardinality(valid_moves) >= 1
\* assert len(valid_moves) == 1
assert_ok(valid_moves) == Cardinality(valid_moves) = 1

merge_mut(output, solutions) == output
\* for solution in solutions: if len(solution) > 0: output.add(solution)
merge(output, solutions) == output \cup {s \in solutions : Len(s) > 0}

found_mut(solution) == FALSE
\* solution != None
found(solution) == ~solution.is_none

Top == stack[Len(stack)]
Running(name) == calls # <<>> /\ Head(calls) = name /\ status = "ok"

\* next_state = list(curr_state); next_state.append(move); the call.
\* Returns the stack and heap once the callee has run its first statements.
\* The list next_state was bound to before is released by the rebinding and
\* the new one takes its slot.
Descend(move) ==
    LET c == list_copy(heap, Top.curr_state, next_state_ref(Len(stack)))
        h2 == [c.heap EXCEPT ![c.ref] = Append(@, move)]
        child == NewFrame(h2, c.ref, board_size, Len(stack) + 1)
        stk == Append([stack EXCEPT ![Len(stack)].todo = @ \ {move},
                                    ![Len(stack)].next_state = c.ref],
                      child.frame)
    IN [stack |-> stk, heap |-> child.heap, arg |-> h2[c.ref]]

(***************************************************************************)
(* The calls                                                               *)
(***************************************************************************)
brute_force_call ==
    /\ Running("brute_force")
    /\ bf_result' = brute_force(board_size)
    /\ finished' = finished \cup {"brute_force"}
    /\ calls' = Tail(calls)
    /\ UNCHANGED <<board_size, status, solver_vars, test_vars>>

----------------------------------------------------------------------------
\* recursive(start, board_size) called by the outermost caller
recursive_call ==
    /\ Running("recursive")
    /\ stack = <<>>
    /\ LET f == NewFrame(heap, RootRef, board_size, 1)
       IN /\ stack' = <<f.frame>>
          /\ heap' = f.heap
    /\ UNCHANGED <<board_size, calls, status, finished, bf_result,
                   all_result, fast_result, visited, test_vars>>

\* `return output` of the top frame, with the caller's loop over the
\* returned solutions
recursive_return_value(h, value) ==
    LET rest == SubSeq(stack, 1, Len(stack) - 1)
    IN IF rest = <<>>
       THEN /\ stack' = <<>>
            /\ heap' = Collect(h, <<>>)
            /\ all_result' = value
            /\ finished' = finished \cup {"recursive"}
            /\ calls' = Tail(calls)
       ELSE /\ stack' = [rest EXCEPT ![Len(rest)].output = merge(@, value)]
            /\ heap' = Collect(h, stack')
            /\ UNCHANGED <<all_result, finished, calls>>

recursive_base ==
    /\ Running("recursive")
    /\ stack # <<>>
    /\ Cardinality(Top.valid_moves) = 0
    /\ recursive_return_value(heap, Top.output)
    /\ UNCHANGED <<board_size, status, bf_result, fast_result, visited,
                   test_vars>>

recursive_last_move ==
    /\ Running("recursive")
    /\ stack # <<>>
    /\ Cardinality(Top.valid_moves) # 0
    /\ is_last_move(heap[Top.curr_state], board_size)
    /\ IF assert_ok(Top.valid_moves)
       THEN LET h2 == [heap EXCEPT ![Top.curr_state] =
                                        extend(@, Top.valid_moves)]
            IN /\ recursive_return_value(
                      h2, Top.output \cup {h2[Top.curr_state]})
               /\ UNCHANGED status
       ELSE /\ status' = "AssertionError"
            /\ calls' = <<>>
            /\ UNCHANGED <<heap, stack, all_result, finished>>
    /\ UNCHANGED <<board_size, bf_result, fast_result, visited, test_vars>>

recursive_loop ==
    /\ Running("recursive")
    /\ stack # <<>>
    /\ Cardinality(Top.valid_moves) # 0
    /\ ~is_last_move(heap[Top.curr_state], board_size)
    /\ Top.todo # {}
    /\ LET d == Descend(next_move(Top.todo))
       IN /\ stack' = d.stack
          /\ heap' = d.heap
    /\ UNCHANGED <<board_size, calls, status, finished, bf_result,
                   all_result, fast_result, visited, test_vars>>

recursive_return ==
    /\ Running("recursive")
    /\ stack # <<>>
    /\ Cardinality(Top.valid_moves) # 0
    /\ ~is_last_move(heap[Top.curr_state], board_size)
    /\ Top.todo = {}
    /\ recursive_return_value(heap, Top.output)
    /\ UNCHANGED <<board_size, status, bf_result, fast_result, visited,
                   test_vars>>

----------------------------------------------------------------------------
\* recursive_fast(start, board_size) called by the outermost caller
recursive_fast_call ==
    /\ Running("recursive_fast")
    /\ stack = <<>>
    /\ LET f == NewFrame(heap, RootRef, board_size, 1)
       IN /\ stack' = <<f.frame>>
          /\ heap' = f.heap
    /\ visited' = visited \cup {heap[RootRef]}
    /\ UNCHANGED <<board_size, calls, status, finished, bf_result,
                   all_result, fast_result, test_vars>>

\* a `return` of the top frame: the caller receives the value in `solution`
recursive_fast_return_value(h, value) ==
    LET rest == SubSeq(stack, 1, Len(stack) - 1)
    IN IF rest = <<>>
       THEN /\ stack' = <<>>
            /\ heap' = Collect(h, <<>>)
            /\ fast_result' = value
            /\ finished' = finished \cup {"recursive_fast"}
            /\ calls' = Tail(calls)
       ELSE /\ stack' = [rest EXCEPT ![Len(rest)].solution = value]
            /\ heap' = Collect(h, stack')
            /\ UNCHANGED <<fast_result, finished, calls>>

recursive_fast_base ==
    /\ Running("recursive_fast")
    /\ stack # <<>>
    /\ Cardinality(Top.valid_moves) = 0
    /\ recursive_fast_return_value(heap, NoneValue)
    /\ UNCHANGED <<board_size, status, bf_result, all_result, visited,
                   test_vars>>

recursive_fast_last_move ==
    /\ Running("recursive_fast")
    /\ stack # <<>>
    /\ Cardinality(Top.valid_moves) # 0
    /\ is_last_move(heap[Top.curr_state], board_size)
    /\ IF assert_ok(Top.valid_moves)
       THEN LET h2 == [heap EXCEPT ![Top.curr_state] =
                                        extend(@, Top.valid_moves)]
            IN /\ recursive_fast_return_value(h2, Some(h2[Top.curr_state]))
               /\ UNCHANGED status
       ELSE /\ status' = "AssertionError"
            /\ calls' = <<>>
            /\ UNCHANGED <<heap, stack, fast_result, finished>>
    /\ UNCHANGED <<board_size, bf_result, all_result, visited, test_vars>>

\* the child returned a solution: `return solution`
recursive_fast_found ==
    /\ Running("recursive_fast")
    /\ stack # <<>>
    /\ found(Top.solution)
    /\ recursive_fast_return_value(heap, Top.solution)
    /\ UNCHANGED <<board_size, status, bf_result, all_result, visited,
                   test_vars>>

recursive_fast_loop ==
    /\ Running("recursive_fast")
    /\ stack # <<>>
    /\ Cardinality(Top.valid_moves) # 0
    /\ ~is_last_move(heap[Top.curr_state], board_size)
    /\ ~found(Top.solution)
    /\ Top.todo # {}
    /\ LET d == Descend(next_move(Top.todo))
       IN /\ stack' = d.stack
          /\ heap' = d.heap
          /\ visited' = visited \cup {d.arg}
    /\ UNCHANGED <<board_size, calls, status, finished, bf_result,
                   all_result, fast_result, test_vars>>

\* the loop ran out: `return None`
recursive_fast_return ==
    /\ Running("recursive_fast")
    /\ stack # <<>>
    /\ Cardinality(Top.valid_moves) # 0
    /\ ~is_last_move(heap[Top.curr_state], board_size)
    /\ ~found(Top.solution)
    /\ Top.todo = {}
    /\ recursive_fast_return_value(heap, NoneValue)
    /\ UNCHANGED <<board_size, status, bf_result, all_result, visited,
                   test_vars>>

----------------------------------------------------------------------------
\* test_get_valid_moves(board_size): failed = set(),
\* brute_force_solutions = brute_force(board_size)[0]
test_get_valid_moves_call ==
    /\ Running("test_get_valid_moves")
    /\ test_pc = "idle"
    /\ failed' = {}
    /\ brute_force_solutions' = brute_force(board_size).solutions
    /\ test_todo' = brute_force_solutions'
    /\ test_pc' = "for_solution"
    /\ UNCHANGED <<board_size, calls, status, finished, bf_result,
                   solver_vars, test_solution, test_row, test_valid_moves,
                   test_result>>

\* `for solution in brute_force_solutions`: the order in which a set of
\* tuples is iterated is fixed by the tuples' hashes; the model takes the
\* solutions in lexicographic order.
test_next_solution ==
    /\ Running("test_get_valid_moves")
    /\ test_pc = "for_solution"
    /\ test_todo # {}
    /\ LET solution == LexMin(test_todo)
       IN /\ test_solution' = solution
          /\ test_todo' = test_todo \ {solution}
          /\ test_pc' = IF Len(solution) = 0 THEN "for_solution"
                        ELSE "for_row"
    /\ test_row' = 0
    /\ UNCHANGED <<board_size, calls, status, finished, bf_result,
                   solver_vars, brute_force_solutions, test_valid_moves,
                   failed, test_result>>

\* one iteration of `for row, move in enumerate(solution)`;
\* failed.add(solution, move) passes two arguments to set.add and raises
\* TypeError
test_check_move ==
    /\ Running("test_get_valid_moves")
    /\ test_pc = "for_row"
    /\ LET move == test_solution[test_row + 1]
           valid_moves == get_valid_moves(SubSeq(test_solution, 1, test_row),
                                          board_size)
       IN /\ test_valid_moves' = valid_moves
          /\ IF move \notin valid_moves
             THEN /\ status' = "TypeError"
                  /\ calls' = <<>>
                  /\ UNCHANGED <<test_row, test_pc>>
             ELSE /\ test_row' = test_row + 1
                  /\ test_pc' = IF test_row + 1 = Len(test_solution)
                                THEN "for_solution" ELSE "for_row"
                  /\ UNCHANGED <<status, calls>>
    /\ UNCHANGED <<board_size, finished, bf_result, solver_vars,
                   brute_force_solutions, test_todo, test_solution, failed,
                   test_result>>

\* if len(failed) > 0: FAILED, else: Test passed
test_report ==
    /\ Running("test_get_valid_moves")
    /\ test_pc = "for_solution"
    /\ test_todo = {}
    /\ test_result' = IF Cardinality(failed) > 0 THEN "FAILED" ELSE "passed"
    /\ test_pc' = "idle"
    /\ finished' = finished \cup {"test_get_valid_moves"}
    /\ calls' = Tail(calls)
    /\ UNCHANGED <<board_size, status, bf_result, solver_vars,
                   brute_force_solutions, test_todo, test_solution, test_row,
                   test_valid_moves, failed>>

(***************************************************************************)
(* Specifications                                                          *)
(***************************************************************************)
\* every partial placement of length < n with rows in [0, n)
RECURSIVE PartialsOfLen(_, _)
PartialsOfLen(n, k) ==
    IF k = 0 THEN {<<>>}
    ELSE {Append(p, r) : p \in PartialsOfLen(n, k - 1), r \in range(n)}

Partials(n) == UNION {PartialsOfLen(n, k) : k \in 0..Max({n - 1, 0})}

InitWith(n, start, script) ==
    /\ board_size = n
    /\ calls = script
    /\ heap = (RootRef :> start)
    /\ stack = <<>>
    /\ status = "ok"
    /\ finished = {}
    /\ bf_result = [solutions |-> {}, counter |-> 0]
    /\ all_result = {}
    /\ fast_result = NoneValue
    /\ visited = {}
    /\ brute_force_solutions = {}
    /\ test_todo = {}
    /\ test_pc = "idle"
    /\ test_solution = <<>>
    /\ test_row = 0
    /\ test_valid_moves = {}
    /\ failed = {}
    /\ test_result = ""

\* Every function is called once with the same board size, the solvers
\* with the empty placement.
Init ==
    \E n \in 0..MaxN :
        InitWith(n, <<>>, <<"brute_force", "recursive", "recursive_fast",
                            "test_get_valid_moves">>)

RecursiveStep ==
    \/ recursive_call
    \/ recursive_base
    \/ recursive_last_move
    \/ recursive_loop
    \/ recursive_return

RecursiveFastStep ==
    \/ recursive_fast_call
    \/ recursive_fast_base
    \/ recursive_fast_last_move
    \/ recursive_fast_found
    \/ recursive_fast_loop
    \/ recursive_fast_return

TestStep ==
    \/ test_get_valid_moves_call
    \/ test_next_solution
    \/ test_check_move
    \/ test_report

Next ==
    \/ brute_force_call
    \/ RecursiveStep
    \/ RecursiveFastStep
    \/ TestStep

Spec == Init /\ [][Next]_vars

\* The two backtracking solvers alone, in either order: from the empty
\* placement for every board size up to MaxSolverN, and from every partial
\* placement for board sizes up to MaxPartialN.
Starts(n) == {<<>>} \cup (IF n <= MaxPartialN THEN Partials(n) ELSE {})

SolverInit ==
    \E n \in 0..MaxSolverN :
        \E start \in Starts(n) :
            \E script \in {<<"recursive", "recursive_fast">>,
                           <<"recursive_fast", "recursive">>} :
                InitWith(n, start, script)

SolverNext ==
    \/ RecursiveStep
    \/ RecursiveFastStep

SolverSpec == SolverInit /\ [][SolverNext]_vars

\* The solvers from the empty placement, where a call that can take a step
\* takes it: the program is sequential and nothing suspends it.
FairSolverInit ==
    \E n \in 0..MaxFairN :
        \E script \in {<<"recursive", "recursive_fast">>,
                       <<"recursive_fast", "recursive">>} :
            InitWith(n, <<>>, script)

FairSolverSpec ==
    FairSolverInit /\ [][SolverNext]_vars /\ WF_vars(SolverNext)

(***************************************************************************)
(* Properties                                                              *)
(***************************************************************************)
Returned(name) == name \in finished

\* the placement the outermost caller passed to the solvers
StartPlacement == heap[RootRef]

FromEmpty == StartPlacement = <<>> /\ board_size >= 1

\* p is a complete placement of n queens none of which attacks another
IsSolution(p, n) ==
    /\ Len(p) = n
    /\ \A i \in 1..n : p[i] \in 0..(n - 1)
    /\ \A i \in 1..n : \A j \in (i + 1)..n :
           /\ p[i] # p[j]
           /\ abs(p[i] - p[j]) # j - i

\* C1: for N >= 1, recursive from the empty placement returns exactly the
\* placements that are permutations of 0..N-1 with |p[i]-p[j]| # j-i for
\* i < j, which is also the solution set brute_force returns.
C1_SolveAllIsExactlyTheSolutions ==
    (board_size >= 1 /\ Returned("recursive") /\ Returned("brute_force")) =>
        /\ all_result = bf_result.solutions
        /\ \A p \in all_result : IsSolution(p, board_size)
        /\ calls = <<>> =>
               \A p \in [1..board_size -> 0..(board_size - 1)] :
                   IsSolution(p, board_size) => p \in all_result

C1_Witness ==
    /\ board_size = 4
    /\ Returned("recursive")
    /\ calls = <<>>
    /\ all_result = {<<1, 3, 0, 2>>, <<2, 0, 3, 1>>}

\* C2: for N >= 1, recursive_fast returns None iff recursive returns the
\* empty set iff brute_force returns an empty solution set.
C2_SolversAgreeOnSolvability ==
    (board_size >= 1 /\ Returned("brute_force") /\ Returned("recursive")
        /\ Returned("recursive_fast")) =>
        /\ fast_result.is_none <=> all_result = {}
        /\ all_result = {} <=> bf_result.solutions = {}

C2_Witness ==
    /\ board_size = 3
    /\ Returned("brute_force") /\ Returned("recursive")
    /\ Returned("recursive_fast")
    /\ fast_result.is_none
    /\ all_result = {}
    /\ bf_result.solutions = {}

C4_ValidMovesExact ==
    \A i \in 1..Len(stack) :
        LET partial == heap[stack[i].prev_moves]
            k == Len(partial)
        IN (k < board_size /\ \A c \in 1..k : partial[c] \in 0..(board_size - 1))
           =>
           /\ stack[i].valid_moves =
                  {r \in 0..(board_size - 1) :
                      \A idx \in 0..(k - 1) :
                          /\ r # partial[idx + 1]
                          /\ abs(r - partial[idx + 1]) # k - idx}
           /\ partial = <<>> => stack[i].valid_moves = 0..(board_size - 1)
           /\ (partial = <<0>> /\ board_size = 4) =>
                  stack[i].valid_moves = {2, 3}

C4_Witness ==
    /\ board_size = 4
    /\ stack # <<>>
    /\ heap[Top.prev_moves] = <<0>>
    /\ Top.valid_moves = {2, 3}

\* C5: for N >= 1, every solution S of brute_force and every index r have
\* S[r] in get_valid_moves(S[:r], N); test_get_valid_moves never executes
\* failed.add, failed stays empty and the test reports a pass.
C5_OracleAcceptsEverySolution ==
    /\ status # "TypeError"
    /\ failed = {}
    /\ test_result # "FAILED"
    /\ Returned("test_get_valid_moves") => test_result = "passed"
    /\ test_row >= 1 => test_solution[test_row] \in test_valid_moves
    /\ (board_size >= 1 /\ Returned("brute_force")) =>
           \A S \in bf_result.solutions :
               \A r \in 0..(board_size - 1) :
                   S[r + 1] \in get_valid_moves(SubSeq(S, 1, r), board_size)

C5_Witness ==
    /\ board_size = 5
    /\ Returned("test_get_valid_moves")
    /\ test_result = "passed"
    /\ Cardinality(brute_force_solutions) = 10
    /\ test_row = 5

\* the top frame of a solver is at the one-column-left step
AtLastColumn ==
    /\ Running("recursive") \/ Running("recursive_fast")
    /\ stack # <<>>
    /\ Len(heap[Top.curr_state]) = board_size - 1

\* the top frame returns set() (recursive) or None (recursive_fast) to its
\* caller without raising: the outermost caller gets that value, a calling
\* frame gains no solution from it
ReturnsEmpty ==
    /\ status' = "ok"
    /\ Len(stack') = Len(stack) - 1
    /\ IF Len(stack) = 1
       THEN IF Head(calls) = "recursive"
            THEN all_result' = {} /\ Returned("recursive")'
            ELSE fast_result' = NoneValue /\ Returned("recursive_fast")'
       ELSE IF Head(calls) = "recursive"
            THEN stack'[Len(stack')].output = stack[Len(stack')].output
            ELSE stack'[Len(stack')].solution = NoneValue

\* C6 as claimed: at the one-column-left step, zero valid moves or more
\* than one valid move always end in a fatal assertion failure.
C6_ZeroOrManyIsFatal ==
    [][(AtLastColumn /\ Cardinality(Top.valid_moves) # 1)
          => status' = "AssertionError"]_vars

\* C6 amended: at the one-column-left step, more than one valid move ends in
\* a fatal assertion failure and no result is returned; zero valid moves
\* returns the empty set (recursive) or None (recursive_fast) normally,
\* without reaching the assertion.
C6_ManyIsFatalZeroReturnsEmpty ==
    [][/\ (AtLastColumn /\ Cardinality(Top.valid_moves) > 1) =>
              /\ status' = "AssertionError"
              /\ calls' = <<>>
              /\ UNCHANGED <<stack, all_result, fast_result, finished>>
       /\ (AtLastColumn /\ Cardinality(Top.valid_moves) = 0) =>
              ReturnsEmpty]_vars

C6_Witness ==
    /\ status = "AssertionError"
    /\ stack # <<>>
    /\ Len(heap[Top.curr_state]) = board_size - 1
    /\ Cardinality(Top.valid_moves) > 1

\* C7: started from the empty placement with N >= 1, the assertion
\* len(valid_moves) == 1 never fails: every reached placement of length N-1
\* with at least one valid move has exactly one.
C7_AssertionNeverFails ==
    FromEmpty =>
        /\ status # "AssertionError"
        /\ \A i \in 1..Len(stack) :
               (Len(heap[stack[i].curr_state]) = board_size - 1
                   /\ stack[i].valid_moves # {})
               => Cardinality(stack[i].valid_moves) = 1

C7_Witness ==
    /\ FromEmpty
    /\ board_size = 6
    /\ stack # <<>>
    /\ Len(heap[Top.curr_state]) = board_size - 1
    /\ Cardinality(Top.valid_moves) = 1

\* C8: started from the empty placement with N >= 1, both solvers terminate,
\* every call receives a placement of length at most N-1 and there are never
\* more than N nested frames.
C8_TerminatesWithinDepthN ==
    /\ [](FromEmpty =>
             /\ Len(stack) <= board_size
             /\ \A i \in 1..Len(stack) :
                    Len(heap[stack[i].prev_moves]) <= board_size - 1)
    /\ FromEmpty ~> (calls = <<>> /\ stack = <<>>
                        /\ Returned("recursive")
                        /\ Returned("recursive_fast"))

C8_Witness ==
    /\ FromEmpty
    /\ board_size = 6
    /\ Len(stack) = board_size
    /\ Len(heap[Top.prev_moves]) = board_size - 1

\* C9: a call never changes the list its caller passed in and only extends
\* its own copy: the list passed to any live call and the curr_state of any
\* frame waiting for a child keep their contents in every step, and calling
\* get_valid_moves again on the list passed in gives the set the call got.
C9_CallerPlacementUnchanged ==
    /\ [](\A i \in 1..Len(stack) :
             stack[i].valid_moves =
                 get_valid_moves(heap[stack[i].prev_moves], board_size))
    /\ [][/\ \A i \in 1..Len(stack) :
                 /\ stack[i].prev_moves \in DOMAIN heap'
                 /\ heap'[stack[i].prev_moves] = heap[stack[i].prev_moves]
          /\ \A i \in 1..(Len(stack) - 1) :
                 /\ stack[i].curr_state \in DOMAIN heap'
                 /\ heap'[stack[i].curr_state] = heap[stack[i].curr_state]
                 /\ i <= Len(stack') =>
                        stack'[i].curr_state = stack[i].curr_state
          /\ heap'[RootRef] = heap[RootRef]]_vars

\* a child that was given (0, 2) on a board of 5 has returned to its parent
C9_Witness ==
    /\ board_size = 5
    /\ Len(stack) = 2
    /\ heap[Top.curr_state] = <<0>>
    /\ Top.next_state \in DOMAIN heap
    /\ heap[Top.next_state] = <<0, 2>>
    /\ Top.output # {} \/ ~Top.solution.is_none

\* C10: for N = 0, recursive returns the empty set and recursive_fast None,
\* both through the no-valid-moves branch, while brute_force returns the
\* set holding the empty placement, with counter 0.
C10_BoardSizeZero ==
    board_size = 0 =>
        /\ status = "ok"
        /\ Len(stack) <= 1
        /\ \A i \in 1..Len(stack) : stack[i].valid_moves = {}
        /\ Returned("recursive") => all_result = {}
        /\ Returned("recursive_fast") => fast_result = NoneValue
        /\ Returned("brute_force") =>
               bf_result = [solutions |-> {<<>>}, counter |-> 0]

C10_Witness ==
    /\ board_size = 0
    /\ Returned("brute_force")
    /\ Returned("recursive")
    /\ Returned("recursive_fast")
    /\ bf_result.solutions = {<<>>}
    /\ all_result = {}

====
